---- MODULE Spec2Model ----
(***************************************************************************)
(* Model of the arch-testing harness: TestRunner::run_with_config drives   *)
(* a bounded setup phase (bitcoin, titan, local validator started in       *)
(* dependency order), a bounded test phase and a teardown phase.           *)
(*                                                                         *)
(* Time is counted in seconds.  `elapsed` is the time since the tokio      *)
(* timeout of the current phase was armed; it advances in steps of         *)
(* Quantum; `now` is the time since the run began.  A tokio timeout fires  *)
(* only where the wrapped future is pending at an .await and the deadline  *)
(* has passed; there the run is woken at the deadline, so time does not    *)
(* pass beyond it unnoticed.  A blocking call on the run's task lets time  *)
(* pass whatever the timer says.                                           *)
(***************************************************************************)
EXTENDS Integers, Sequences, FiniteSets

VARIABLES
    config,                    \* TestRunnerConfig: the two timeouts and the five ports
    pc,                        \* position of the run_with_config task
    bitcoin_container,         \* TestRunner field: TRUE = Some(handle), FALSE = None
    titan_container,           \* TestRunner field
    local_validator_conainer,  \* TestRunner field (spelled as in the source)
    setup_timeout,             \* local of setup_with_timeout: the deadline applied
    test_timeout,              \* local of test_with_timeout: the deadline applied
    warnings,                  \* tracing::warn! lines emitted: subset of {"setup","test"}
    startup_timeout,           \* startup_timeout of each container config built so far
    elapsed,                   \* seconds since the current phase's timeout was armed
    rpc_probe,                 \* the spawn_blocking retry task of bitcoin's wait_for_rpc_ready
    probe_attempts,            \* probe attempts made so far, per probing kind
    launched,                  \* kinds whose instance start() of the launcher returned Ok
    start_calls,               \* kinds whose ::start was invoked, in order
    start_results,             \* per kind: "none", "pending", "ok", "err", "cancelled"
    setup_result,              \* "none", "ok", "err", "elapsed"
    test_invoked,              \* test_fn(ctx) was called
    test_outcome,              \* "none", "ok", "err", "elapsed", "panic"
    final_result,              \* "none", "ok", "err", "elapsed"
    teardown_entered,          \* ctx.teardown() was called
    populated_at_teardown,     \* kinds whose slot was Some when teardown was called
    shutdown_calls,            \* kinds whose shutdown() was invoked, in order
    shutdown_failed,           \* kinds whose shutdown() returned Err
    run_result,                \* "none", "ok" (returned), "panic"
    now,                       \* seconds since run_with_config was called
    test_began,                \* value of `now` when test_fn was called
    probe_began,               \* value of `now` when each readiness loop began
    steps,                     \* per kind: the steps of ::start completed so far
    launch_args,               \* per kind: what the launcher was called with (at most one)
    client_url                 \* per kind: the URL its client was built on (at most one)

vars == <<config, pc, bitcoin_container, titan_container, local_validator_conainer,
          setup_timeout, test_timeout, warnings, startup_timeout, launch_args, elapsed,
          rpc_probe, probe_attempts, launched, client_url, start_calls, start_results,
          setup_result, test_invoked, test_outcome, final_result,
          teardown_entered, populated_at_teardown, shutdown_calls,
          shutdown_failed, run_result, now, test_began, probe_began, steps>>

----------------------------------------------------------------------------
\* Program constants (seconds)

MAX_SETUP_TIMEOUT == 120

MAX_TEST_TIMEOUT == 300

\* DEFAULT_RPC_PORT and DEFAULT_TCP_PORT of bitcoin_container.rs
DEFAULT_BITCOIN_RPC_PORT == 18443

DEFAULT_BITCOIN_TCP_PORT == 18444

\* DEFAULT_HTTP_PORT and DEFAULT_TCP_PORT of titan_container.rs
DEFAULT_TITAN_HTTP_PORT == 3030

DEFAULT_TITAN_TCP_PORT == 8080

\* DEFAULT_RPC_PORT and DEFAULT_WEBSOCKET_PORT of local_validator_container.rs
DEFAULT_VALIDATOR_RPC_PORT == 9002

DEFAULT_VALIDATOR_WEBSOCKET_PORT == 29002

DEFAULT_SETUP_TIMEOUT == 15

DEFAULT_TEST_TIMEOUT == 30

\* max_elapsed_time of ExponentialBackoff::default(): 15 minutes
BACKOFF_MAX_ELAPSED == 900

----------------------------------------------------------------------------
\* Bounds of the model

\* requested timeouts range up to the ceiling plus MaxExcess seconds
MaxExcess == 1

\* the clock advances in steps of Quantum seconds
Quantum == 30

\* not-ready probe attempts modelled per readiness loop
MaxProbes == 2

\* how far above its default a configured port may lie
MaxPortShift == 1

----------------------------------------------------------------------------

Kinds == {"bitcoin", "titan", "validator"}

\* the kinds whose start calls wait_for_rpc_ready
ProbingKinds == {"bitcoin", "validator"}

\* what a start has done after the launch: built its client, seen its
\* readiness loop return Ok or Err, finished or failed its fixture
StartSteps == {"client", "ready", "ready_timeout", "fixture", "fixture_failed"}

\* the order of the three starts in setup_internal
StartOrder == <<"bitcoin", "titan", "validator">>

\* the order of the three take()/shutdown() blocks in teardown
TeardownOrder == <<"validator", "titan", "bitcoin">>

SetupTimeouts ==
    {DEFAULT_SETUP_TIMEOUT} \cup ((MAX_SETUP_TIMEOUT - 1) .. (MAX_SETUP_TIMEOUT + MaxExcess))

TestTimeouts ==
    {DEFAULT_TEST_TIMEOUT} \cup ((MAX_TEST_TIMEOUT - 1) .. (MAX_TEST_TIMEOUT + MaxExcess))

\* the ports of TestRunnerConfig::new()
DefaultPorts ==
    [bitcoin_rpc_port : {DEFAULT_BITCOIN_RPC_PORT},
     titan_http_port : {DEFAULT_TITAN_HTTP_PORT},
     titan_tcp_port : {DEFAULT_TITAN_TCP_PORT},
     validator_rpc_port : {DEFAULT_VALIDATOR_RPC_PORT},
     validator_websocket_port : {DEFAULT_VALIDATOR_WEBSOCKET_PORT}]

\* ports a caller may set instead: each default or one of the next ones
PortsFrom(default) == default .. (default + MaxPortShift)

PortConfigs ==
    [bitcoin_rpc_port : PortsFrom(DEFAULT_BITCOIN_RPC_PORT),
     titan_http_port : PortsFrom(DEFAULT_TITAN_HTTP_PORT),
     titan_tcp_port : PortsFrom(DEFAULT_TITAN_TCP_PORT),
     validator_rpc_port : PortsFrom(DEFAULT_VALIDATOR_RPC_PORT),
     validator_websocket_port : PortsFrom(DEFAULT_VALIDATOR_WEBSOCKET_PORT)]

\* a TestRunnerConfig of the given timeouts and ports
MakeConfig(st, tt, ports) ==
    [setup_timeout |-> st, test_timeout |-> tt,
     bitcoin_rpc_port |-> ports.bitcoin_rpc_port,
     titan_http_port |-> ports.titan_http_port,
     titan_tcp_port |-> ports.titan_tcp_port,
     validator_rpc_port |-> ports.validator_rpc_port,
     validator_websocket_port |-> ports.validator_websocket_port]

\* configs with the default ports and any of the timeouts
Configs ==
    {MakeConfig(st, tt, ports) : st \in SetupTimeouts, tt \in TestTimeouts,
                                 ports \in DefaultPorts}

\* configs with the default timeouts and any of the ports
EndpointConfigs ==
    {MakeConfig(DEFAULT_SETUP_TIMEOUT, DEFAULT_TEST_TIMEOUT, ports) :
        ports \in PortConfigs}

\* Clamp with `>=` written for `>`: a request equal to the ceiling warns
ClampWarnsAtCeiling(requested, ceiling) ==
    IF requested >= ceiling
        THEN [timeout |-> ceiling, warn |-> TRUE]
        ELSE [timeout |-> requested, warn |-> FALSE]

\* the if/else at the head of setup_with_timeout and of test_with_timeout:
\* the duration handed to tokio's timeout, and whether tracing::warn! ran
Clamp(requested, ceiling) ==
    IF requested > ceiling
        THEN [timeout |-> ceiling, warn |-> TRUE]
        ELSE [timeout |-> requested, warn |-> FALSE]

\* From<TestRunnerConfig> for the three container configs: startup_timeout
StartupTimeoutFrom(cfg) == cfg.setup_timeout

\* From<TestRunnerConfig> for BitcoinContainerConfig: the ports
BitcoinConfigFrom(cfg) ==
    [rpc_port |-> cfg.bitcoin_rpc_port, tcp_port |-> DEFAULT_BITCOIN_TCP_PORT]

\* TitanConfigFrom with the ports of TitanContainerConfig::default() kept
TitanConfigFromDefault(cfg) ==
    [http_port |-> DEFAULT_TITAN_HTTP_PORT, tcp_port |-> DEFAULT_TITAN_TCP_PORT]

\* From<TestRunnerConfig> for TitanContainerConfig: the ports
TitanConfigFrom(cfg) ==
    [http_port |-> cfg.titan_http_port, tcp_port |-> cfg.titan_tcp_port]

\* From<TestRunnerConfig> for LocalValidatorContainerConfig: the ports
ValidatorConfigFrom(cfg) ==
    [rpc_port |-> cfg.validator_rpc_port, websocket_port |-> cfg.validator_websocket_port]

\* the result of format!("{scheme}{host}:{port}"), kept in its parts
Endpoint(scheme, host, port) == [scheme |-> scheme, host |-> host, port |-> port]

\* the host under which a container reaches a port published on the host
PEER_HOST == "host.docker.internal"

\* the host under which the test process reaches a published port
LOCAL_HOST == "127.0.0.1"

\* the address a service binds inside its container
BIND_HOST == "0.0.0.0"

\* BitcoinContainerConfig::docker_network_rpc_url
BitcoinDockerNetworkRpcUrl(c) == Endpoint("http://", PEER_HOST, c.rpc_port)

\* BitcoinContainerConfig::local_network_rpc_url
BitcoinLocalNetworkRpcUrl(c) == Endpoint("http://", LOCAL_HOST, c.rpc_port)

\* TitanContainerConfig::local_network_http_url
TitanLocalNetworkHttpUrl(c) == Endpoint("http://", LOCAL_HOST, c.http_port)

\* TitanContainerConfig::docker_network_http_url
TitanDockerNetworkHttpUrl(c) == Endpoint("http://", PEER_HOST, c.http_port)

\* TitanContainerConfig::docker_network_tcp_address
TitanDockerNetworkTcpAddress(c) == Endpoint("", PEER_HOST, c.tcp_port)

\* TitanContainerConfig::docker_network_http_bind
TitanDockerNetworkHttpBind(c) == Endpoint("", BIND_HOST, c.http_port)

\* TitanContainerConfig::docker_network_tcp_bind
TitanDockerNetworkTcpBind(c) == Endpoint("", BIND_HOST, c.tcp_port)

\* LocalValidatorContainerConfig::local_network_rpc_url
ValidatorLocalNetworkRpcUrl(c) == Endpoint("http://", LOCAL_HOST, c.rpc_port)

\* with_mapped_port(p, ContainerPort::Tcp(p))
MappedPort(p) == <<p, p>>

\* what start_container hands to the container runtime
BitcoinLaunchArgs(cfg) ==
    LET c == BitcoinConfigFrom(cfg) IN
    [mapped_ports |-> {MappedPort(c.rpc_port)}, rpcport |-> c.rpc_port]

\* what start_titan_container hands to the container runtime
TitanLaunchArgs(cfg) ==
    LET b == BitcoinConfigFrom(cfg)
        t == TitanConfigFrom(cfg) IN
    [mapped_ports |-> {MappedPort(t.tcp_port), MappedPort(t.http_port)},
     BITCOIN_RPC_URL |-> BitcoinDockerNetworkRpcUrl(b),
     HTTP_LISTEN |-> TitanDockerNetworkHttpBind(t),
     TCP_ADDRESS |-> TitanDockerNetworkTcpBind(t)]

\* what start_local_validator_container hands to the container runtime
ValidatorLaunchArgs(cfg) ==
    LET t == TitanConfigFrom(cfg)
        v == ValidatorConfigFrom(cfg) IN
    [mapped_ports |-> {MappedPort(v.rpc_port), MappedPort(v.websocket_port)},
     rpc_bind_port |-> v.rpc_port,
     titan_endpoint |-> TitanDockerNetworkHttpUrl(t),
     titan_socket_endpoint |-> TitanDockerNetworkTcpAddress(t)]

LaunchArgs(k, cfg) ==
    CASE k = "bitcoin" -> BitcoinLaunchArgs(cfg)
      [] k = "titan" -> TitanLaunchArgs(cfg)
      [] k = "validator" -> ValidatorLaunchArgs(cfg)

\* the URL handed to Client::new, TitanClient::new, AsyncArchRpcClient::new
ClientUrl(k, cfg) ==
    CASE k = "bitcoin" -> BitcoinLocalNetworkRpcUrl(BitcoinConfigFrom(cfg))
      [] k = "titan" -> TitanLocalNetworkHttpUrl(TitanConfigFrom(cfg))
      [] k = "validator" -> ValidatorLocalNetworkRpcUrl(ValidatorConfigFrom(cfg))

Slot(k) ==
    CASE k = "bitcoin" -> bitcoin_container
      [] k = "titan" -> titan_container
      [] k = "validator" -> local_validator_conainer

Populated == {k \in Kinds : Slot(k)}

\* positions of the run at which the setup future is pending at an .await
SetupAwaitPcs == {"btc_launch", "btc_probe", "titan_launch", "val_launch", "val_probe"}

\* positions inside BitcoinContainer::start that run blocking client calls
\* on the async task itself (no .await between them)
FixturePcs == {"btc_create_wallet", "btc_get_new_address", "btc_generate"}

SetupPcs == SetupAwaitPcs \cup FixturePcs

TeardownPcs == {"td_validator", "stop_validator", "td_titan", "stop_titan",
                "td_bitcoin", "stop_bitcoin"}

TypeOK ==
    /\ config \in Configs \cup EndpointConfigs
    /\ pc \in {"run"} \cup SetupPcs \cup {"match_setup", "testing"} \cup TeardownPcs
              \cup {"finish", "done"}
    /\ bitcoin_container \in BOOLEAN
    /\ titan_container \in BOOLEAN
    /\ local_validator_conainer \in BOOLEAN
    /\ setup_timeout \in Nat
    /\ test_timeout \in Nat
    /\ warnings \subseteq {"setup", "test"}
    /\ startup_timeout \in [Kinds -> Nat]
    /\ elapsed \in Nat
    /\ rpc_probe \in {"none", "running", "ready", "gave_up"}
    /\ probe_attempts \in [ProbingKinds -> 0 .. (MaxProbes + 2)]
    /\ launched \subseteq Kinds
    /\ start_calls \in Seq(Kinds)
    /\ start_results \in [Kinds -> {"none", "pending", "ok", "err", "cancelled"}]
    /\ setup_result \in {"none", "ok", "err", "elapsed"}
    /\ test_invoked \in BOOLEAN
    /\ test_outcome \in {"none", "ok", "err", "elapsed", "panic"}
    /\ final_result \in {"none", "ok", "err", "elapsed"}
    /\ teardown_entered \in BOOLEAN
    /\ populated_at_teardown \subseteq Kinds
    /\ shutdown_calls \in Seq(Kinds)
    /\ shutdown_failed \subseteq Kinds
    /\ run_result \in {"none", "ok", "panic"}
    /\ now \in Nat
    /\ test_began \in Nat
    /\ probe_began \in [ProbingKinds -> Nat]
    /\ steps \in [Kinds -> SUBSET StartSteps]
    /\ \A k \in Kinds : launch_args[k] \subseteq {LaunchArgs(k, config)}
    /\ \A k \in Kinds : client_url[k] \subseteq {ClientUrl(k, config)}

\* run_with_config has been called with some config and has built ctx with
\* three None slots (lines 39-45)
Constructed ==
    /\ pc = "run"
    /\ bitcoin_container = FALSE
    /\ titan_container = FALSE
    /\ local_validator_conainer = FALSE
    /\ setup_timeout = 0
    /\ test_timeout = 0
    /\ warnings = {}
    /\ startup_timeout = [k \in Kinds |-> 0]
    /\ elapsed = 0
    /\ rpc_probe = "none"
    /\ probe_attempts = [k \in ProbingKinds |-> 0]
    /\ launched = {}
    /\ start_calls = <<>>
    /\ start_results = [k \in Kinds |-> "none"]
    /\ setup_result = "none"
    /\ test_invoked = FALSE
    /\ test_outcome = "none"
    /\ final_result = "none"
    /\ teardown_entered = FALSE
    /\ populated_at_teardown = {}
    /\ shutdown_calls = <<>>
    /\ shutdown_failed = {}
    /\ run_result = "none"
    /\ now = 0
    /\ test_began = 0
    /\ probe_began = [k \in ProbingKinds |-> 0]
    /\ steps = [k \in Kinds |-> {}]
    /\ launch_args = [k \in Kinds |-> {}]
    /\ client_url = [k \in Kinds |-> {}]

\* a run with the default ports
Init == config \in Configs /\ Constructed

\* a run with the default timeouts and the caller's ports
EndpointInit == config \in EndpointConfigs /\ Constructed

----------------------------------------------------------------------------
\* Groups of variables for UNCHANGED

slotVars == <<bitcoin_container, titan_container, local_validator_conainer>>

probeVars == <<rpc_probe, probe_attempts>>

testVars == <<test_timeout, test_invoked, test_outcome, final_result>>

tdVars == <<teardown_entered, populated_at_teardown, shutdown_calls, shutdown_failed>>

clockVars == <<now, test_began, probe_began>>

\* the time the readiness loop of kind k has been running
ProbeClock(k) == now - probe_began[k]

\* steps with step s added for kind k
Stepped(k, s) == [steps EXCEPT ![k] = @ \cup {s}]

----------------------------------------------------------------------------
\* Setup phase

\* K::start(...) is called: the call is recorded and is now in progress
InvokeStart(k, results) ==
    /\ start_calls' = Append(start_calls, k)
    /\ start_results' = [results EXCEPT ![k] = "pending"]
    /\ startup_timeout' = [startup_timeout EXCEPT ![k] = StartupTimeoutFrom(config)]
    /\ launch_args' = [launch_args EXCEPT ![k] = {LaunchArgs(k, config)}]

\* StartFails without the `?`: the error is dropped and setup_internal goes
\* on with the next start (after the validator's, it returns Ok)
StartFailsSwallowed(k) ==
    IF k = "validator"
        THEN /\ start_results' = [start_results EXCEPT ![k] = "err"]
             /\ setup_result' = "ok"
             /\ pc' = "match_setup"
             /\ UNCHANGED <<start_calls, startup_timeout, launch_args>>
        ELSE LET next == IF k = "bitcoin" THEN "titan" ELSE "validator" IN
             /\ InvokeStart(next, [start_results EXCEPT ![k] = "err"])
             /\ pc' = IF k = "bitcoin" THEN "titan_launch" ELSE "val_launch"
             /\ UNCHANGED setup_result

\* StartFails with a retry: the manager calls the failed K::start again
StartFailsRetried(k) ==
    /\ InvokeStart(k, start_results)
    /\ pc' = CASE k = "bitcoin" -> "btc_launch"
               [] k = "titan" -> "titan_launch"
               [] k = "validator" -> "val_launch"
    /\ UNCHANGED setup_result

\* K::start returned Err: the `?` in setup_internal returns it at once, and
\* setup_with_timeout hands it to run_with_config
StartFails(k) ==
    /\ start_results' = [start_results EXCEPT ![k] = "err"]
    /\ setup_result' = "err"
    /\ pc' = "match_setup"
    /\ UNCHANGED <<start_calls, startup_timeout, launch_args>>

\* run_with_config calls setup_with_timeout: the deadline is clamped, the
\* timeout is armed, setup_internal builds bitcoin_config and calls
\* BitcoinContainer::start, which awaits the launcher
SetupWithTimeout ==
    /\ pc = "run"
    /\ LET c == Clamp(config.setup_timeout, MAX_SETUP_TIMEOUT) IN
        /\ setup_timeout' = c.timeout
        /\ warnings' = IF c.warn THEN warnings \cup {"setup"} ELSE warnings
    /\ elapsed' = 0
    /\ InvokeStart("bitcoin", start_results)
    /\ pc' = "btc_launch"
    /\ UNCHANGED <<config, slotVars, probeVars, launched, client_url, setup_result, testVars,
                   tdVars, run_result, clockVars, steps>>

\* start_container(config).await returns.  Ok: the client is built (the URL
\* is well formed, Client::new cannot fail on it) and wait_for_rpc_ready
\* spawns the blocking retry task and awaits its JoinHandle.
BtcLaunchReturns(ok) ==
    /\ pc = "btc_launch"
    /\ IF ok
        THEN /\ launched' = launched \cup {"bitcoin"}
             /\ client_url' = [client_url EXCEPT !["bitcoin"] = {ClientUrl("bitcoin", config)}]
             /\ steps' = Stepped("bitcoin", "client")
             /\ rpc_probe' = "running"
             /\ probe_began' = [probe_began EXCEPT !["bitcoin"] = now]
             /\ pc' = "btc_probe"
             /\ UNCHANGED <<start_calls, start_results, startup_timeout, launch_args, setup_result>>
        ELSE /\ StartFails("bitcoin")
             /\ UNCHANGED <<launched, client_url, steps, rpc_probe, probe_began>>
    /\ UNCHANGED <<config, slotVars, setup_timeout, warnings, elapsed, probe_attempts,
                   testVars, tdVars, run_result, now, test_began>>

\* RpcProbeAttempt with backoff::Error::permanent written for transient:
\* the first probe error ends the retry loop
RpcProbeAttemptPermanent(ready) ==
    /\ rpc_probe = "running"
    /\ ready \/ probe_attempts["bitcoin"] < MaxProbes
    /\ probe_attempts' = [probe_attempts EXCEPT !["bitcoin"] = @ + 1]
    /\ rpc_probe' = IF ready THEN "ready" ELSE "gave_up"
    /\ UNCHANGED <<config, pc, slotVars, setup_timeout, warnings, startup_timeout, launch_args,
                   elapsed, launched, client_url, start_calls, start_results, setup_result,
                   testVars, tdVars, run_result, clockVars, steps>>

\* one attempt of the closure handed to backoff::retry on the blocking
\* thread: Ok ends the loop; any Err is transient and is retried, until the
\* loop has run for max_elapsed_time, when retry returns the last error.
\* The task is detached from the run: dropping its JoinHandle does not
\* stop it.
RpcProbeAttempt(ready) ==
    /\ rpc_probe = "running"
    /\ \/ ready
       \/ probe_attempts["bitcoin"] < MaxProbes
       \/ ProbeClock("bitcoin") >= BACKOFF_MAX_ELAPSED
    /\ probe_attempts' = [probe_attempts EXCEPT !["bitcoin"] = @ + 1]
    /\ rpc_probe' = IF ready THEN "ready"
                    ELSE IF ProbeClock("bitcoin") >= BACKOFF_MAX_ELAPSED THEN "gave_up"
                    ELSE "running"
    /\ UNCHANGED <<config, pc, slotVars, setup_timeout, warnings, startup_timeout, launch_args,
                   elapsed, launched, client_url, start_calls, start_results, setup_result,
                   testVars, tdVars, run_result, clockVars, steps>>

\* BtcProbeJoined without the wait: start goes on to the fixture whatever
\* the retry task has found
BtcProbeNotAwaited ==
    /\ pc = "btc_probe"
    /\ pc' = "btc_create_wallet"
    /\ UNCHANGED <<config, slotVars, setup_timeout, warnings, startup_timeout, launch_args, elapsed,
                   probeVars, launched, client_url, start_calls, start_results, setup_result,
                   testVars, tdVars, run_result, clockVars, steps>>

\* the JoinHandle resolves.  Ok(Ok(())): start goes on to the fixture.
\* Ok(Err(e)): start returns "... failed to become ready within timeout".
BtcProbeJoined ==
    /\ pc = "btc_probe"
    /\ rpc_probe \in {"ready", "gave_up"}
    /\ IF rpc_probe = "ready"
        THEN /\ steps' = Stepped("bitcoin", "ready")
             /\ pc' = "btc_create_wallet"
             /\ UNCHANGED <<start_calls, start_results, startup_timeout, launch_args, setup_result>>
        ELSE /\ steps' = Stepped("bitcoin", "ready_timeout")
             /\ StartFails("bitcoin")
    /\ UNCHANGED <<config, slotVars, setup_timeout, warnings, elapsed,
                   probeVars, launched, client_url, testVars, tdVars, run_result, clockVars>>

\* BtcFixtureStep with the Err arm of create_wallet only logging: the
\* wallet error is not returned and start goes on
BtcFixtureStepLogsWalletError(ok) ==
    /\ pc \in FixturePcs
    /\ IF ~ok /\ pc # "btc_create_wallet"
        THEN /\ steps' = Stepped("bitcoin", "fixture_failed")
             /\ StartFails("bitcoin")
             /\ UNCHANGED bitcoin_container
        ELSE IF pc = "btc_generate"
        THEN /\ steps' = Stepped("bitcoin", "fixture")
             /\ bitcoin_container' = TRUE
             /\ InvokeStart("titan", [start_results EXCEPT !["bitcoin"] = "ok"])
             /\ pc' = "titan_launch"
             /\ UNCHANGED setup_result
        ELSE /\ pc' = IF pc = "btc_create_wallet" THEN "btc_get_new_address"
                                                  ELSE "btc_generate"
             /\ steps' = IF ok THEN steps ELSE Stepped("bitcoin", "fixture_failed")
             /\ UNCHANGED <<bitcoin_container, start_calls, start_results,
                            startup_timeout, launch_args, setup_result>>
    /\ UNCHANGED <<config, titan_container, local_validator_conainer, setup_timeout,
                   warnings, elapsed, probeVars, launched, client_url, testVars, tdVars, run_result,
                   clockVars>>

\* one of the three blocking fixture calls returns.  Err: start returns Err.
\* Ok of the last one: start returns the handle, setup_internal fills the
\* bitcoin slot, builds titan_config and calls TitanContainer::start.
BtcFixtureStep(ok) ==
    /\ pc \in FixturePcs
    /\ IF ~ok
        THEN /\ steps' = Stepped("bitcoin", "fixture_failed")
             /\ StartFails("bitcoin")
             /\ UNCHANGED bitcoin_container
        ELSE IF pc = "btc_generate"
        THEN /\ steps' = Stepped("bitcoin", "fixture")
             /\ bitcoin_container' = TRUE
             /\ InvokeStart("titan", [start_results EXCEPT !["bitcoin"] = "ok"])
             /\ pc' = "titan_launch"
             /\ UNCHANGED setup_result
        ELSE /\ pc' = IF pc = "btc_create_wallet" THEN "btc_get_new_address"
                                                  ELSE "btc_generate"
             /\ UNCHANGED <<bitcoin_container, start_calls, start_results,
                            startup_timeout, launch_args, setup_result, steps>>
    /\ UNCHANGED <<config, titan_container, local_validator_conainer, setup_timeout,
                   warnings, elapsed, probeVars, launched, client_url, testVars, tdVars, run_result,
                   clockVars>>

\* start_titan_container(...).await returns (the launcher has waited for
\* "Synced to tip" on stdout).  Ok: the client is built and
\* TitanContainer::start returns the handle (no probe, no fixture), the
\* titan slot is filled, the validator config is built and
\* LocalValidatorContainer::start is called.
TitanLaunchReturns(ok) ==
    /\ pc = "titan_launch"
    /\ IF ok
        THEN /\ launched' = launched \cup {"titan"}
             /\ client_url' = [client_url EXCEPT !["titan"] = {ClientUrl("titan", config)}]
             /\ steps' = Stepped("titan", "client")
             /\ titan_container' = TRUE
             /\ InvokeStart("validator", [start_results EXCEPT !["titan"] = "ok"])
             /\ pc' = "val_launch"
             /\ UNCHANGED setup_result
        ELSE /\ StartFails("titan")
             /\ UNCHANGED <<launched, client_url, steps, titan_container>>
    /\ UNCHANGED <<config, bitcoin_container, local_validator_conainer, setup_timeout,
                   warnings, elapsed, probeVars, testVars, tdVars, run_result,
                   clockVars>>

\* start_local_validator_container(...).await returns.  Ok: the client is
\* built and wait_for_rpc_ready starts its async retry loop.
ValLaunchReturns(ok) ==
    /\ pc = "val_launch"
    /\ IF ok
        THEN /\ launched' = launched \cup {"validator"}
             /\ client_url' = [client_url EXCEPT !["validator"] = {ClientUrl("validator", config)}]
             /\ steps' = Stepped("validator", "client")
             /\ probe_began' = [probe_began EXCEPT !["validator"] = now]
             /\ pc' = "val_probe"
             /\ UNCHANGED <<start_calls, start_results, startup_timeout, launch_args, setup_result>>
        ELSE /\ StartFails("validator")
             /\ UNCHANGED <<launched, client_url, steps, probe_began>>
    /\ UNCHANGED <<config, slotVars, setup_timeout, warnings, elapsed, probeVars,
                   testVars, tdVars, run_result, now, test_began>>

\* ValProbeAttempt with backoff::Error::permanent written for transient:
\* the first probe error ends the loop and start returns it
ValProbeAttemptPermanent(ready) ==
    /\ pc = "val_probe"
    /\ ready \/ probe_attempts["validator"] < MaxProbes
    /\ probe_attempts' = [probe_attempts EXCEPT !["validator"] = @ + 1]
    /\ IF ready
        THEN /\ steps' = Stepped("validator", "ready")
             /\ local_validator_conainer' = TRUE
             /\ start_results' = [start_results EXCEPT !["validator"] = "ok"]
             /\ setup_result' = "ok"
             /\ pc' = "match_setup"
             /\ UNCHANGED <<start_calls, startup_timeout, launch_args>>
        ELSE /\ StartFails("validator")
             /\ UNCHANGED <<local_validator_conainer, steps>>
    /\ UNCHANGED <<config, bitcoin_container, titan_container, setup_timeout, warnings,
                   elapsed, rpc_probe, launched, client_url, testVars, tdVars, run_result,
                   clockVars>>

\* one attempt of the async retry closure of the validator's
\* wait_for_rpc_ready.  Ok: start returns the handle, the validator slot is
\* filled and setup_internal returns Ok(()).  Err: transient, retried, until
\* the loop has run for max_elapsed_time, when start returns "... failed to
\* become ready within timeout".
ValProbeAttempt(ready) ==
    /\ pc = "val_probe"
    /\ \/ ready
       \/ probe_attempts["validator"] < MaxProbes
       \/ ProbeClock("validator") >= BACKOFF_MAX_ELAPSED
    /\ probe_attempts' = [probe_attempts EXCEPT !["validator"] = @ + 1]
    /\ IF ready
        THEN /\ steps' = Stepped("validator", "ready")
             /\ local_validator_conainer' = TRUE
             /\ start_results' = [start_results EXCEPT !["validator"] = "ok"]
             /\ setup_result' = "ok"
             /\ pc' = "match_setup"
             /\ UNCHANGED <<start_calls, startup_timeout, launch_args>>
        ELSE IF ProbeClock("validator") >= BACKOFF_MAX_ELAPSED
        THEN /\ steps' = Stepped("validator", "ready_timeout")
             /\ StartFails("validator")
             /\ UNCHANGED local_validator_conainer
        ELSE UNCHANGED <<local_validator_conainer, start_results, setup_result, pc,
                         start_calls, startup_timeout, launch_args, steps>>
    /\ UNCHANGED <<config, bitcoin_container, titan_container, setup_timeout, warnings,
                   elapsed, rpc_probe, launched, client_url, testVars, tdVars, run_result,
                   clockVars>>

\* setup_internal awaited without a timeout: nothing cuts a pending start
SetupNeverTimesOut ==
    /\ FALSE
    /\ UNCHANGED vars

\* tokio's timeout around setup_internal fires: the future is pending at an
\* .await and the deadline has passed.  The future is dropped (the start in
\* progress is cancelled; the slots keep what they hold) and setup ends
\* with Err(Elapsed).
SetupTimeoutElapsed ==
    /\ pc \in SetupAwaitPcs
    /\ elapsed >= setup_timeout
    /\ setup_result' = "elapsed"
    /\ start_results' = [k \in Kinds |->
                            IF start_results[k] = "pending" THEN "cancelled"
                                                            ELSE start_results[k]]
    /\ pc' = "match_setup"
    /\ UNCHANGED <<config, slotVars, setup_timeout, warnings, startup_timeout, launch_args, elapsed,
                   probeVars, launched, client_url, start_calls, testVars, tdVars, run_result,
                   clockVars, steps>>

----------------------------------------------------------------------------
\* Time

Min(a, b) == IF a <= b THEN a ELSE b

\* positions at which the run waits for something outside it
WaitPcs == SetupPcs \cup {"testing", "stop_validator", "stop_titan", "stop_bitcoin", "done"}

\* time passes.  Under an armed timeout and at an .await the run is woken
\* at the deadline at the latest; inside a blocking fixture call it is not.
\* A JoinHandle that has resolved wakes the run without delay.
\* After the timed phases time is followed only while the detached retry
\* task is still looping.
Tick ==
    /\ \/ /\ pc \in SetupAwaitPcs /\ elapsed < setup_timeout
          /\ pc = "btc_probe" => rpc_probe = "running"
       \/ pc \in FixturePcs /\ elapsed <= setup_timeout
       \/ pc = "testing" /\ elapsed < test_timeout
       \/ /\ pc \in WaitPcs \ (SetupPcs \cup {"testing"})
          /\ rpc_probe = "running"
          /\ ProbeClock("bitcoin") < BACKOFF_MAX_ELAPSED
    /\ LET d == IF pc \in SetupAwaitPcs THEN Min(Quantum, setup_timeout - elapsed)
                ELSE IF pc = "testing" THEN Min(Quantum, test_timeout - elapsed)
                ELSE Quantum
       IN /\ now' = now + d
          /\ elapsed' = IF pc \in SetupPcs \cup {"testing"} THEN elapsed + d ELSE elapsed
    /\ UNCHANGED <<config, pc, slotVars, setup_timeout, warnings, startup_timeout, launch_args,
                   probeVars, launched, client_url, start_calls, start_results, setup_result,
                   testVars, tdVars, run_result, test_began, probe_began, steps>>

----------------------------------------------------------------------------
\* Test phase

\* ctx.teardown() is called
EnterTeardown ==
    /\ teardown_entered' = TRUE
    /\ populated_at_teardown' = Populated
    /\ pc' = "td_validator"

\* SetupFailed with an early return: the error is reported without teardown
SetupFailedReturnsEarly ==
    /\ final_result' = setup_result
    /\ pc' = "finish"
    /\ UNCHANGED <<teardown_entered, populated_at_teardown>>

\* the arm `Err(setup_err) => Err(setup_err)` and the call of teardown
\* that follows the match
SetupFailed ==
    /\ final_result' = setup_result
    /\ EnterTeardown

\* ArmTestTimeout with the setup deadline's clock kept: the test's deadline
\* counts the time setup took
ArmTestTimeoutOnSetupClock ==
    /\ elapsed' = elapsed
    /\ test_began' = now

\* `timeout(test_timeout, test_fn(ctx))`: a new timer is armed when the
\* test routine is called
ArmTestTimeout ==
    /\ elapsed' = 0
    /\ test_began' = now

\* MatchSetup with the test routine spawned and not awaited: teardown is
\* called while test_fn is still running
MatchSetupSpawnsTest ==
    /\ pc = "match_setup"
    /\ IF setup_result = "ok"
        THEN LET c == Clamp(config.test_timeout, MAX_TEST_TIMEOUT) IN
            /\ test_timeout' = c.timeout
            /\ warnings' = IF c.warn THEN warnings \cup {"test"} ELSE warnings
            /\ test_invoked' = local_validator_conainer
            /\ final_result' = IF local_validator_conainer THEN "ok" ELSE "err"
            /\ ArmTestTimeout
            /\ EnterTeardown
        ELSE /\ SetupFailed
             /\ UNCHANGED <<test_timeout, warnings, test_invoked, elapsed, test_began>>
    /\ UNCHANGED <<config, slotVars, setup_timeout, startup_timeout, launch_args,
                   probeVars, launched, client_url, start_calls, start_results,
                   setup_result, test_outcome, shutdown_calls, shutdown_failed,
                   run_result, now, probe_began, steps>>

\* `match setup_result` in run_with_config.  Ok: test_with_timeout clamps
\* the test deadline, builds the TestContext from the validator slot
\* (get_validator fails on an empty slot) and calls test_fn under the
\* timeout.  Err: the error becomes final_result and teardown is called.
MatchSetup ==
    /\ pc = "match_setup"
    /\ IF setup_result = "ok"
        THEN LET c == Clamp(config.test_timeout, MAX_TEST_TIMEOUT) IN
            /\ test_timeout' = c.timeout
            /\ warnings' = IF c.warn THEN warnings \cup {"test"} ELSE warnings
            /\ IF local_validator_conainer
                THEN /\ test_invoked' = TRUE
                     /\ ArmTestTimeout
                     /\ pc' = "testing"
                     /\ UNCHANGED <<final_result, teardown_entered,
                                    populated_at_teardown>>
                ELSE /\ final_result' = "err"
                     /\ EnterTeardown
                     /\ UNCHANGED <<test_invoked, elapsed, test_began>>
        ELSE /\ SetupFailed
             /\ UNCHANGED <<test_timeout, warnings, test_invoked, elapsed, test_began>>
    /\ UNCHANGED <<config, slotVars, setup_timeout, startup_timeout, launch_args, probeVars,
                   launched, client_url, start_calls, start_results, setup_result, test_outcome,
                   shutdown_calls, shutdown_failed, run_result, now, probe_began,
                   steps>>

\* the future of test_fn completes: Ok(()) or Err(e) become final_result
\* and teardown is called; a panic unwinds out of run_with_config, past
\* the call of teardown
TestReturns(outcome) ==
    /\ pc = "testing"
    /\ test_outcome' = outcome
    /\ IF outcome = "panic"
        THEN /\ run_result' = "panic"
             /\ pc' = "done"
             /\ UNCHANGED <<final_result, teardown_entered, populated_at_teardown>>
        ELSE /\ final_result' = outcome
             /\ EnterTeardown
             /\ UNCHANGED run_result
    /\ UNCHANGED <<config, slotVars, setup_timeout, test_timeout, warnings,
                   startup_timeout, launch_args, elapsed, probeVars, launched, client_url, start_calls,
                   start_results, setup_result, test_invoked, shutdown_calls,
                   shutdown_failed, clockVars, steps>>

\* tokio's timeout around the test future fires
TestTimeoutElapsed ==
    /\ pc = "testing"
    /\ elapsed >= test_timeout
    /\ test_outcome' = "elapsed"
    /\ final_result' = "elapsed"
    /\ EnterTeardown
    /\ UNCHANGED <<config, slotVars, setup_timeout, test_timeout, warnings,
                   startup_timeout, launch_args, elapsed, probeVars, launched, client_url, start_calls,
                   start_results, setup_result, test_invoked, shutdown_calls,
                   shutdown_failed, run_result, clockVars, steps>>

----------------------------------------------------------------------------
\* Teardown phase

TdPc(k) == "td_" \o k

StopPc(k) == "stop_" \o k

\* AfterPc with the blocks in the order of setup: after the validator's
\* block come bitcoin's and then titan's
AfterPcForward(k) ==
    CASE k = "validator" -> "td_bitcoin"
      [] k = "bitcoin" -> "td_titan"
      [] k = "titan" -> "finish"

\* where teardown goes on after the block of kind k
AfterPc(k) ==
    CASE k = "validator" -> "td_titan"
      [] k = "titan" -> "td_bitcoin"
      [] k = "bitcoin" -> "finish"

\* TeardownStep with `&self.<slot>` for `self.<slot>.take()`: shutdown is
\* called on the handle and the slot keeps it
TeardownStepKeepsSlot(k) ==
    /\ pc = TdPc(k)
    /\ IF Slot(k)
        THEN /\ shutdown_calls' = Append(shutdown_calls, k)
             /\ pc' = StopPc(k)
             /\ UNCHANGED slotVars
        ELSE /\ pc' = AfterPc(k)
             /\ UNCHANGED <<slotVars, shutdown_calls>>
    /\ UNCHANGED <<config, setup_timeout, warnings, startup_timeout, launch_args, elapsed,
                   probeVars, launched, client_url, start_calls, start_results,
                   setup_result, testVars, teardown_entered, populated_at_teardown,
                   shutdown_failed, run_result, clockVars, steps>>

\* `if let Some(c) = self.<slot>.take()`: the slot is emptied and, if it
\* held a handle, c.shutdown() is called and awaited
TeardownStep(k) ==
    /\ pc = TdPc(k)
    /\ IF Slot(k)
        THEN /\ bitcoin_container' = (k # "bitcoin" /\ bitcoin_container)
             /\ titan_container' = (k # "titan" /\ titan_container)
             /\ local_validator_conainer' = (k # "validator" /\ local_validator_conainer)
             /\ shutdown_calls' = Append(shutdown_calls, k)
             /\ pc' = StopPc(k)
        ELSE /\ pc' = AfterPc(k)
             /\ UNCHANGED <<slotVars, shutdown_calls>>
    /\ UNCHANGED <<config, setup_timeout, warnings, startup_timeout, launch_args, elapsed, probeVars,
                   launched, client_url, start_calls, start_results, setup_result, testVars,
                   teardown_entered, populated_at_teardown, shutdown_failed,
                   run_result, clockVars, steps>>

\* c.shutdown().await returns.  Ok: teardown goes on.  Err: .unwrap()
\* panics, which unwinds out of teardown and of run_with_config.
ShutdownReturns(k, ok) ==
    /\ pc = StopPc(k)
    /\ IF ok
        THEN /\ pc' = AfterPc(k)
             /\ UNCHANGED <<shutdown_failed, run_result>>
        ELSE /\ shutdown_failed' = shutdown_failed \cup {k}
             /\ run_result' = "panic"
             /\ pc' = "done"
    /\ UNCHANGED <<config, slotVars, setup_timeout, warnings, startup_timeout, launch_args, elapsed,
                   probeVars, launched, client_url, start_calls, start_results, setup_result,
                   testVars, teardown_entered, populated_at_teardown, shutdown_calls,
                   clockVars, steps>>

\* Finish without the check of final_result: the run always returns
FinishIgnoresResult ==
    /\ pc = "finish"
    /\ run_result' = "ok"
    /\ pc' = "done"
    /\ UNCHANGED <<config, slotVars, setup_timeout, warnings, startup_timeout, launch_args, elapsed,
                   probeVars, launched, client_url, start_calls, start_results, setup_result,
                   testVars, tdVars, clockVars, steps>>

\* teardown returned: `if let Err(e) = final_result { panic!(...) }`
Finish ==
    /\ pc = "finish"
    /\ run_result' = IF final_result = "ok" THEN "ok" ELSE "panic"
    /\ pc' = "done"
    /\ UNCHANGED <<config, slotVars, setup_timeout, warnings, startup_timeout, launch_args, elapsed,
                   probeVars, launched, client_url, start_calls, start_results, setup_result,
                   testVars, tdVars, clockVars, steps>>

----------------------------------------------------------------------------

Next ==
    \/ SetupWithTimeout
    \/ \E ok \in BOOLEAN : BtcLaunchReturns(ok)
    \/ \E ready \in BOOLEAN : RpcProbeAttempt(ready)
    \/ BtcProbeJoined
    \/ \E ok \in BOOLEAN : BtcFixtureStep(ok)
    \/ \E ok \in BOOLEAN : TitanLaunchReturns(ok)
    \/ \E ok \in BOOLEAN : ValLaunchReturns(ok)
    \/ \E ready \in BOOLEAN : ValProbeAttempt(ready)
    \/ SetupTimeoutElapsed
    \/ Tick
    \/ MatchSetup
    \/ \E outcome \in {"ok", "err", "panic"} : TestReturns(outcome)
    \/ TestTimeoutElapsed
    \/ \E k \in Kinds : TeardownStep(k)
    \/ \E k \in Kinds, ok \in BOOLEAN : ShutdownReturns(k, ok)
    \/ Finish

Spec == Init /\ [][Next]_vars

EndpointSpec == EndpointInit /\ [][Next]_vars

\* the steps that are bound to happen: every launch, fixture call, test
\* routine and shutdown returns, the run's own steps are taken, time
\* passes and an armed timer fires.  A probe attempt is not among them:
\* nothing obliges a service ever to answer.
Progress ==
    \/ SetupWithTimeout
    \/ \E ok \in BOOLEAN : BtcLaunchReturns(ok)
    \/ BtcProbeJoined
    \/ \E ok \in BOOLEAN : BtcFixtureStep(ok)
    \/ \E ok \in BOOLEAN : TitanLaunchReturns(ok)
    \/ \E ok \in BOOLEAN : ValLaunchReturns(ok)
    \/ SetupTimeoutElapsed
    \/ Tick
    \/ MatchSetup
    \/ \E outcome \in {"ok", "err", "panic"} : TestReturns(outcome)
    \/ TestTimeoutElapsed
    \/ \E k \in Kinds : TeardownStep(k)
    \/ \E k \in Kinds, ok \in BOOLEAN : ShutdownReturns(k, ok)
    \/ Finish

FairSpec == Spec /\ WF_vars(Progress)

----------------------------------------------------------------------------
\* Properties

Range(seq) == {seq[i] : i \in 1 .. Len(seq)}

RunEnded == pc = "done"

\* C1: a run that ended after setup failed or timed out, or after the test
\* routine returned success, returned a failure or timed out, has entered
\* teardown; and teardown is entered before the run's last step
C1_TeardownAlwaysEntered ==
    /\ (RunEnded /\ (setup_result \in {"err", "elapsed"}
                     \/ test_outcome \in {"ok", "err", "elapsed"}))
           => teardown_entered
    /\ pc = "finish" => teardown_entered

C1_Witness ==
    RunEnded /\ setup_result = "elapsed" /\ bitcoin_container = FALSE
             /\ "bitcoin" \in launched /\ teardown_entered

\* C2: when a shutdown failed during teardown, every handle that was
\* populated when teardown began still got its shutdown attempt before the
\* run ended
C2_ShutdownAttemptedAfterFailure ==
    (RunEnded /\ "validator" \in shutdown_failed)
        => populated_at_teardown \subseteq Range(shutdown_calls)

\* C3: when the test routine panicked after all three services were started,
\* teardown ran and shutdown was attempted in the order validator, indexer,
\* ledger-source
C3_TeardownAfterPanic ==
    (RunEnded /\ test_outcome = "panic")
        => (teardown_entered /\ shutdown_calls = TeardownOrder)

\* C4: the test routine is invoked only after setup returned success with
\* all three services started; after a setup error or setup timeout it is
\* never invoked
C4_TestOnlyAfterSetup ==
    /\ test_invoked =>
           /\ setup_result = "ok"
           /\ \A k \in Kinds : start_results[k] = "ok" /\ k \in launched
    /\ setup_result \in {"err", "elapsed"} => ~test_invoked

C4_Witness ==
    RunEnded /\ setup_result = "err" /\ start_results["validator"] = "err"
             /\ ~test_invoked

\* C5: when all three services were started and the test routine returned
\* success, returned a failure or timed out, the run ends with shutdown
\* invoked exactly once on each handle, in the order validator, indexer,
\* ledger-source
C5_AllThreeShutDownInOrder ==
    (RunEnded /\ setup_result = "ok" /\ test_outcome \in {"ok", "err", "elapsed"})
        => shutdown_calls = TeardownOrder

\* C6: when the ledger-source instance was launched and its start then
\* failed (the fixture failed, or readiness had not succeeded when start
\* ended), the run's teardown attempted the ledger-source's shutdown
C6_LaunchedLedgerSourceShutDown ==
    (RunEnded /\ "bitcoin" \in launched
              /\ start_results["bitcoin"] \in {"err", "cancelled"})
        => "bitcoin" \in Range(shutdown_calls)

\* C7: the starts are invoked in the order ledger-source, indexer,
\* validator, each at most once; a start is invoked only after the one
\* before it returned success; after a failed start no start is invoked
C7_StartsInOrderFailFast ==
    /\ \E n \in 0 .. Len(StartOrder) : start_calls = SubSeq(StartOrder, 1, n)
    /\ \A i \in 2 .. Len(start_calls) : start_results[start_calls[i - 1]] = "ok"
    /\ \A i \in 1 .. Len(start_calls) :
           start_results[start_calls[i]] \in {"err", "cancelled"}
               => i = Len(start_calls)

C7_Witness ==
    RunEnded /\ start_results["titan"] = "err" /\ start_calls = <<"bitcoin", "titan">>

\* C8: a run that ended returned normally exactly when setup succeeded, the
\* test routine returned success within its deadline and no shutdown failed;
\* otherwise it ended in a panic
C8_SuccessIffAllSucceeded ==
    RunEnded =>
        /\ run_result \in {"ok", "panic"}
        /\ run_result = "ok" <=>
               (setup_result = "ok" /\ test_outcome = "ok" /\ shutdown_failed = {})

C8_Witness ==
    RunEnded /\ run_result = "panic" /\ setup_result = "ok" /\ test_outcome = "ok"
             /\ shutdown_failed = {"bitcoin"}

\* C9: the deadline applied to setup is min(setup_timeout, MAX_SETUP_TIMEOUT)
\* and the one applied to the test is min(test_timeout, MAX_TEST_TIMEOUT); the
\* warning is emitted exactly when the request is above the ceiling; a phase
\* times out only once its clamped deadline has passed
C9_DeadlinesClamped ==
    /\ pc # "run" =>
           /\ setup_timeout = Min(config.setup_timeout, MAX_SETUP_TIMEOUT)
           /\ "setup" \in warnings <=> config.setup_timeout > MAX_SETUP_TIMEOUT
           /\ config.setup_timeout <= MAX_SETUP_TIMEOUT
                  => setup_timeout = config.setup_timeout
    /\ test_invoked =>
           /\ test_timeout = Min(config.test_timeout, MAX_TEST_TIMEOUT)
           /\ "test" \in warnings <=> config.test_timeout > MAX_TEST_TIMEOUT
           /\ config.test_timeout <= MAX_TEST_TIMEOUT
                  => test_timeout = config.test_timeout
    /\ ~test_invoked => "test" \notin warnings
    /\ setup_result = "elapsed"
           => elapsed >= Min(config.setup_timeout, MAX_SETUP_TIMEOUT)
    /\ test_outcome = "elapsed"
           => elapsed >= Min(config.test_timeout, MAX_TEST_TIMEOUT)

C9_Witness ==
    /\ test_invoked
    /\ config.setup_timeout > MAX_SETUP_TIMEOUT
    /\ setup_timeout = MAX_SETUP_TIMEOUT
    /\ config.test_timeout = MAX_TEST_TIMEOUT
    /\ warnings = {"setup"}

\* C10: no timeout the run uses is above its ceiling: the setup deadline,
\* the test deadline and the startup budget of every container config
C10_NoTimeoutAboveCeiling ==
    /\ setup_timeout <= MAX_SETUP_TIMEOUT
    /\ test_timeout <= MAX_TEST_TIMEOUT
    /\ \A k \in Kinds : startup_timeout[k] <= MAX_SETUP_TIMEOUT

\* C11: when the run ended after a setup that failed or timed out, shutdown
\* was attempted on exactly the services whose slot was populated when
\* teardown began, each once, and on no other
C11_PartialSetupTornDown ==
    (RunEnded /\ teardown_entered /\ setup_result \in {"err", "elapsed"})
        => /\ Range(shutdown_calls) = populated_at_teardown
           /\ Len(shutdown_calls) = Cardinality(populated_at_teardown)

\* C12: when the run ended after a phase whose deadline elapsed, teardown
\* made a shutdown attempt on every handle that was populated when it began
C12_TeardownCompleteAfterTimeout ==
    (RunEnded /\ (setup_result = "elapsed" \/ test_outcome = "elapsed"))
        => /\ teardown_entered
           /\ populated_at_teardown \subseteq Range(shutdown_calls)

\* C13: the test deadline is counted from the moment the test routine is
\* called, whatever time setup took: the test times out only once its whole
\* clamped budget has passed since then; a phase that exceeded its deadline
\* has failed with the timeout and teardown was entered
C13_DeadlinesIndependent ==
    /\ pc = "testing" => elapsed = now - test_began
    /\ test_outcome = "elapsed"
           => now - test_began >= Min(config.test_timeout, MAX_TEST_TIMEOUT)
    /\ (setup_result = "elapsed" /\ pc # "match_setup") \/ test_outcome = "elapsed"
           => final_result = "elapsed" /\ teardown_entered
    /\ setup_result = "elapsed" => ~test_invoked

C13_Witness ==
    /\ test_outcome = "elapsed"
    /\ test_began >= Quantum
    /\ now - test_began = test_timeout
    /\ teardown_entered

\* C14: a start whose probe reported ready, after any number of not-ready
\* answers, succeeds (the ledger source's unless its fixture fails); a
\* start that ended in its probe loop without a ready answer has not
\* succeeded, and its failure is the timeout's: the setup deadline elapsed
\* or the loop gave up with its "within timeout" error
C14_ProbeDecidesStart ==
    /\ "ready" \in steps["validator"] => start_results["validator"] = "ok"
    /\ ("ready" \in steps["bitcoin"] /\ "fixture_failed" \notin steps["bitcoin"])
           => start_results["bitcoin"] \in {"pending", "ok"}
    /\ \A k \in ProbingKinds :
           ("client" \in steps[k] /\ "ready" \notin steps[k]
                                  /\ start_results[k] # "pending")
               => /\ start_results[k] \in {"err", "cancelled"}
                  /\ ~Slot(k)
                  /\ setup_result = "elapsed" \/ "ready_timeout" \in steps[k]

C14_Witness ==
    /\ start_results["validator"] = "ok"
    /\ probe_attempts["validator"] = MaxProbes + 1
    /\ start_results["bitcoin"] = "ok"
    /\ probe_attempts["bitcoin"] = MaxProbes + 1

\* C15: provided the steps of Progress happen, every run ends, and once it
\* has ended it stays ended: no phase is entered again
C15_RunReachesDoneOnce == <>[](pc = "done")

C15_Witness ==
    /\ RunEnded
    /\ setup_result = "elapsed"
    /\ probe_attempts["validator"] = MaxProbes
    /\ shutdown_calls = <<"titan", "bitcoin">>

\* C16 as stated: a slot of any of the three kinds is populated only after
\* the launch, the client, a ready answer of the probe against the client
\* and, for the ledger source, the fixture
C16_SlotOnlyAfterProbe ==
    \A k \in Kinds :
        (Slot(k) \/ start_results[k] = "ok")
            => /\ k \in launched
               /\ {"client", "ready"} \subseteq steps[k]
               /\ k = "bitcoin" => "fixture" \in steps[k]

\* C16, amended: the ledger source's and the validator's slot are populated
\* only after launch, client, a ready probe and (ledger source) the
\* fixture; the indexer's after launch and client, with no probe against
\* the client
C16_SlotOnlyAfterStartSequence ==
    \A k \in Kinds :
        (Slot(k) \/ start_results[k] = "ok")
            => /\ k \in launched
               /\ "client" \in steps[k]
               /\ k \in ProbingKinds => "ready" \in steps[k]
               /\ k = "bitcoin" => "fixture" \in steps[k] /\ rpc_probe = "ready"
               /\ k = "titan" => steps[k] = {"client"}

C16_Witness ==
    /\ Slot("bitcoin") /\ Slot("titan") /\ Slot("validator")
    /\ "ready" \notin steps["titan"]
    /\ probe_attempts["bitcoin"] = MaxProbes + 1

\* C17: no probe attempt of a service is made once that service's startup
\* budget has passed since its probe loop began
C17_ProbeWithinStartupBudget ==
    [][\A k \in ProbingKinds :
           probe_attempts'[k] # probe_attempts[k]
               => ProbeClock(k) <= startup_timeout[k]]_vars

\* C18: once a fixture call of the ledger source has failed, its start has
\* failed and setup has failed with it; no other start was called, the
\* bitcoin slot is empty, the test routine is not invoked and the run ends
\* in failure
C18_FixtureFailureFatal ==
    "fixture_failed" \in steps["bitcoin"]
        => /\ start_results["bitcoin"] = "err"
           /\ setup_result = "err"
           /\ start_calls = <<"bitcoin">>
           /\ ~Slot("bitcoin")
           /\ ~test_invoked
           /\ RunEnded => run_result = "panic"

C18_Witness ==
    /\ "fixture_failed" \in steps["bitcoin"]
    /\ RunEnded
    /\ teardown_entered
    /\ probe_attempts["bitcoin"] > 1

\* C19: a probe attempt that failed does not end the probe loop: a loop
\* ends only with a ready answer, with the setup deadline elapsing or with
\* the retry's own time limit
C19_ProbeErrorsRetried ==
    [][/\ (rpc_probe = "running" /\ rpc_probe' # "running")
              => rpc_probe' = "ready" \/ ProbeClock("bitcoin") >= BACKOFF_MAX_ELAPSED
       /\ (pc = "val_probe" /\ pc' # "val_probe")
              => \/ "ready" \in steps'["validator"]
                 \/ setup_result' = "elapsed"
                 \/ ProbeClock("validator") >= BACKOFF_MAX_ELAPSED
       /\ (pc = "btc_probe" /\ pc' # "btc_probe")
              => \/ rpc_probe = "ready"
                 \/ setup_result' = "elapsed"
                 \/ ProbeClock("bitcoin") >= BACKOFF_MAX_ELAPSED]_vars

C19_Witness ==
    /\ pc = "val_probe"
    /\ probe_attempts["validator"] = MaxProbes
    /\ probe_attempts["bitcoin"] = MaxProbes + 1

\* C20: setup is never in progress after its deadline: whatever step is
\* under way when the deadline passes, setup ends at that moment
C20_SetupEndsAtDeadline ==
    pc \in SetupPcs => elapsed <= setup_timeout

\* C21: every probe attempt of the run is made while setup is in progress:
\* none after the setup phase ended, during teardown or after the run ended
C21_NoProbeAfterSetup ==
    [][probe_attempts' # probe_attempts => pc \in SetupPcs]_vars

\* C22: in every state the populated slots are a prefix of the dependency
\* chain: a populated validator slot implies a populated indexer slot, and
\* a populated indexer slot implies a populated ledger-source slot
C22_SlotsFormPrefix ==
    /\ local_validator_conainer => titan_container
    /\ titan_container => bitcoin_container

C22_Witness ==
    /\ RunEnded
    /\ shutdown_failed = {"validator"}
    /\ Populated = {"bitcoin", "titan"}

\* C23: while the test routine runs, all three starts have returned Ok, all
\* three slots are populated, no readiness loop is running and no shutdown
\* has been called; at most one start is in progress at a time, and none
\* once setup has ended; a shutdown is called only when the test routine, if
\* it was called, has returned or was cut off by its deadline
C23_PhasesDoNotOverlap ==
    /\ pc = "testing"
           => /\ Populated = Kinds
              /\ \A k \in Kinds : start_results[k] = "ok"
              /\ rpc_probe = "ready"
              /\ shutdown_calls = <<>>
              /\ ~teardown_entered
    /\ Cardinality({k \in Kinds : start_results[k] = "pending"}) <= 1
    /\ pc \notin SetupPcs => \A k \in Kinds : start_results[k] # "pending"
    /\ pc \in SetupPcs => ~test_invoked /\ ~teardown_entered
    /\ (teardown_entered /\ test_invoked) => test_outcome \in {"ok", "err", "elapsed"}
    /\ shutdown_calls # <<>> => teardown_entered

C23_Witness ==
    /\ pc = "stop_validator"
    /\ test_outcome = "elapsed"
    /\ probe_attempts["validator"] = MaxProbes + 1

\* C24: no kind occurs twice among the shutdown calls; a slot whose handle
\* had its shutdown called is empty; and when teardown has passed all three
\* blocks all three slots are empty
C24_ShutdownAtMostOnce ==
    /\ \A i, j \in 1 .. Len(shutdown_calls) :
           shutdown_calls[i] = shutdown_calls[j] => i = j
    /\ \A k \in Range(shutdown_calls) : ~Slot(k)
    /\ (pc = "finish" \/ (RunEnded /\ teardown_entered /\ shutdown_failed = {}))
           => Populated = {}

C24_Witness ==
    /\ RunEnded
    /\ shutdown_calls = <<"validator", "titan">>
    /\ shutdown_failed = {"titan"}
    /\ Populated = {"bitcoin"}

\* C25: whatever ports the config names, the indexer is launched with the
\* ledger source's peer-visible RPC URL on bitcoin_rpc_port, the validator
\* with the indexer's peer-visible HTTP URL on titan_http_port and socket
\* address on titan_tcp_port; these are the ports the upstream service was
\* launched on and published; and each client is built on the local URL
\* with its own service's port
C25_EndpointsNameLaunchPorts ==
    /\ \A t \in launch_args["titan"] :
           /\ t.BITCOIN_RPC_URL = Endpoint("http://", PEER_HOST, config.bitcoin_rpc_port)
           /\ \A b \in launch_args["bitcoin"] :
                  /\ b.rpcport = t.BITCOIN_RPC_URL.port
                  /\ MappedPort(t.BITCOIN_RPC_URL.port) \in b.mapped_ports
           /\ launch_args["bitcoin"] # {}
    /\ \A v \in launch_args["validator"] :
           /\ v.titan_endpoint = Endpoint("http://", PEER_HOST, config.titan_http_port)
           /\ v.titan_socket_endpoint = Endpoint("", PEER_HOST, config.titan_tcp_port)
           /\ \A t \in launch_args["titan"] :
                  /\ t.HTTP_LISTEN.port = v.titan_endpoint.port
                  /\ t.TCP_ADDRESS.port = v.titan_socket_endpoint.port
                  /\ MappedPort(v.titan_endpoint.port) \in t.mapped_ports
                  /\ MappedPort(v.titan_socket_endpoint.port) \in t.mapped_ports
           /\ launch_args["titan"] # {}
    /\ \A u \in client_url["bitcoin"] :
           /\ u = Endpoint("http://", LOCAL_HOST, config.bitcoin_rpc_port)
           /\ \A b \in launch_args["bitcoin"] : MappedPort(u.port) \in b.mapped_ports
    /\ \A u \in client_url["titan"] :
           /\ u = Endpoint("http://", LOCAL_HOST, config.titan_http_port)
           /\ \A t \in launch_args["titan"] : MappedPort(u.port) \in t.mapped_ports
    /\ \A u \in client_url["validator"] :
           /\ u = Endpoint("http://", LOCAL_HOST, config.validator_rpc_port)
           /\ \A v \in launch_args["validator"] :
                  MappedPort(u.port) \in v.mapped_ports /\ v.rpc_bind_port = u.port
    /\ \A k \in Kinds : client_url[k] # {} => launch_args[k] # {}

C25_Witness ==
    /\ \A k \in Kinds : client_url[k] # {}
    /\ config.bitcoin_rpc_port # DEFAULT_BITCOIN_RPC_PORT
    /\ config.titan_http_port # DEFAULT_TITAN_HTTP_PORT
    /\ config.titan_tcp_port # DEFAULT_TITAN_TCP_PORT
    /\ config.validator_rpc_port # DEFAULT_VALIDATOR_RPC_PORT

====
